---- MODULE Spec2Model ----
(***************************************************************************)
(* Model of the to-do list manager of src/src/main.rs: the Task record,    *)
(* the menu loop of main, add_task, view_tasks, and the three file         *)
(* routines load_tasks, save_tasks and export_tasks_to_csv.                *)
(*                                                                         *)
(* Text is modelled as a sequence of one-character strings, so that        *)
(* splitting a line on ',' and formatting / parsing a timestamp are        *)
(* computed character by character, as the program does.                   *)
(*                                                                         *)
(* An instant (DateTime<Utc>) is the number of seconds since               *)
(* 2024-01-01 00:00:00 UTC.  The model draws only instants of January 2024 *)
(* and only timestamps written with zero offset and two-digit fields; the  *)
(* formatter and parser below are exact on those.                          *)
(***************************************************************************)
EXTENDS Integers, Sequences, FiniteSets, TLC

VARIABLES
    tasks,      \* main's Vec<Task>: sequence of [description, due_date]
    store,      \* tasks.csv: [kind: "absent" | "unopenable" | "file", lines]
    export,     \* exported_tasks.csv, same shape
    pc,         \* position of the process
    now,        \* the system clock read by Utc::now()
    desc,       \* add_task: the description read, while in the retry loop
    idx,        \* index of the reminder loop of main (lines 55-59)
    console,    \* what the current menu choice's handler printed
    reminded,   \* indices for which the running reminder pass printed a reminder
    err,        \* the io::Error main returned, "none" while there is none
    lastInput,  \* add_task: the last (trimmed) due-date line read, or None
    lastCheck,  \* the last is_due call: [due_date, now, result], or None
    orig,       \* codec harness: the task list the operation was applied to
    res,        \* codec harness: the io::Result of the last file routine
    io,         \* the last file routine called and the fault injected into it
    calls       \* how many times load_tasks and save_tasks were called

vars == <<tasks, store, export, pc, now, desc, idx, console, reminded, err,
          lastInput, lastCheck, orig, res, io, calls>>

\* Option<T>
None == <<>>
Some(x) == <<x>>
IsSome(o) == o # None
Unwrap(o) == o[1]

-----------------------------------------------------------------------------
(* Bounds of the model *)

MaxTasks == 2
MaxLines == 2
MaxNow == 2

-----------------------------------------------------------------------------
(* Text helpers *)

COMMA == ","

DigitChars == <<"0", "1", "2", "3", "4", "5", "6", "7", "8", "9">>

IsDigit(c) == \E i \in 1..10 : DigitChars[i] = c

DigitVal(c) == (CHOOSE i \in 1..10 : DigitChars[i] = c) - 1

TwoDigits(n) == <<DigitChars[(n \div 10) + 1], DigitChars[(n % 10) + 1]>>

Num2(s, i) == DigitVal(s[i]) * 10 + DigitVal(s[i + 1])

Drop(s, n) == SubSeq(s, n + 1, Len(s))

\* the bytes 0xFF of a line that is not valid UTF-8
BADBYTE == "<FF>"

RECURSIVE TrimStart(_)
TrimStart(s) ==
    IF s # <<>> /\ Head(s) = " " THEN TrimStart(Tail(s)) ELSE s

RECURSIVE TrimEnd(_)
TrimEnd(s) ==
    IF s # <<>> /\ s[Len(s)] = " " THEN TrimEnd(SubSeq(s, 1, Len(s) - 1)) ELSE s

\* str::trim
Trim(s) == TrimEnd(TrimStart(s))

\* position of the first ',' of s, 0 when there is none
FirstComma(s) ==
    IF \E i \in 1..Len(s) : s[i] = COMMA
    THEN CHOOSE i \in 1..Len(s) : s[i] = COMMA /\ \A j \in 1..(i - 1) : s[j] # COMMA
    ELSE 0

\* line.split(',').collect(): always at least one part
RECURSIVE Split(_)
Split(s) ==
    LET i == FirstComma(s) IN
    IF i = 0 THEN <<s>>
    ELSE <<SubSeq(s, 1, i - 1)>> \o Split(Drop(s, i))

-----------------------------------------------------------------------------
(* chrono: Display and FromStr of DateTime<Utc>, DateTime::parse_from_str *)

JAN2024 == <<"2", "0", "2", "4", "-", "0", "1", "-">>
UTC == <<"U", "T", "C">>

\* "{}" of a DateTime<Utc>: "YYYY-MM-DD HH:MM:SS UTC"
Display(dt) ==
    LET d == dt \div 86400
        r == dt % 86400
    IN  JAN2024 \o TwoDigits(d + 1) \o <<" ">>
        \o TwoDigits(r \div 3600) \o <<":">>
        \o TwoDigits((r % 3600) \div 60) \o <<":">>
        \o TwoDigits(r % 60) \o <<" ">> \o UTC

\* "YYYY-MM-DD" at 1..10
DateShape(s) ==
    /\ Len(s) >= 10
    /\ \A i \in {1, 2, 3, 4, 6, 7, 9, 10} : IsDigit(s[i])
    /\ s[5] = "-" /\ s[8] = "-"

\* "HH:MM:SS" at i..i+7
TimeShape(s, i) ==
    /\ Len(s) >= i + 7
    /\ \A k \in {0, 1, 3, 4, 6, 7} : IsDigit(s[i + k])
    /\ s[i + 2] = ":" /\ s[i + 5] = ":"

FieldsInRange(s) ==
    /\ SubSeq(s, 1, 8) = JAN2024
    /\ Num2(s, 9) \in 1..31
    /\ Num2(s, 12) < 24 /\ Num2(s, 15) < 60 /\ Num2(s, 18) < 60

InstantOf(s) ==
    (Num2(s, 9) - 1) * 86400 + Num2(s, 12) * 3600 + Num2(s, 15) * 60 + Num2(s, 18)

\* the zero offsets the relaxed RFC 3339 parser accepts after the time
ZeroOffset(z) ==
    z \in { <<"Z">>, <<"z">>, UTC, <<"+", "0", "0", ":", "0", "0">> }

\* str::parse::<DateTime<Utc>>(): date, 'T' or ' ', time, optional blanks,
\* offset; the instant, or None on a parse error
FromStr(s) ==
    IF /\ DateShape(s)
       /\ Len(s) >= 11 /\ s[11] \in {"T", "t", " "}
       /\ TimeShape(s, 12)
       /\ FieldsInRange(s)
       /\ ZeroOffset(TrimStart(Drop(s, 19)))
    THEN Some(InstantOf(s))
    ELSE None

\* DateTime::parse_from_str(s, "%Y-%m-%d %H:%M:%S"): the format has no offset
\* item, so a string that matches it still lacks the offset a DateTime needs
parse_from_str(s) ==
    IF ~(DateShape(s) /\ Len(s) >= 11 /\ s[11] = " " /\ TimeShape(s, 12))
    THEN [ok |-> FALSE, value |-> None, error |-> "Invalid"]
    ELSE IF Len(s) > 19
    THEN [ok |-> FALSE, value |-> None, error |-> "TooLong"]
    ELSE [ok |-> FALSE, value |-> None, error |-> "NotEnough"]

-----------------------------------------------------------------------------
(* Task *)

\* Task::new
Task(description, due_date) == [description |-> description, due_date |-> due_date]

is_due_strict(task, t) ==
    IF IsSome(task.due_date) THEN t > Unwrap(task.due_date) ELSE FALSE

\* Task::is_due, with the value Utc::now() returned
is_due(task, t) ==
    IF IsSome(task.due_date) THEN t >= Unwrap(task.due_date) ELSE FALSE

-----------------------------------------------------------------------------
(* Files and the faults of the file system *)

Absent == [kind |-> "absent", lines |-> <<>>]
Unopenable == [kind |-> "unopenable", lines |-> <<>>]
File(lines) == [kind |-> "file", lines |-> lines]

NoFault == [kind |-> "none", at |-> 0]
OpenFault == [kind |-> "open", at |-> 0]
WriteFault(k) == [kind |-> "write", at |-> k]

\* the faults of a routine that opens a file and then makes n writes
Faults(n) == {NoFault, OpenFault} \cup {WriteFault(k) : k \in 1..n}

\* OpenOptions::open: fails on a file that cannot be opened, or when the
\* file system refuses this call
OpenFails(f, fault) == f.kind = "unopenable" \/ fault.kind = "open"

\* the lines f holds after the first n of the writes `all` were made, the
\* file having been truncated when it was opened
Written(all, fault) ==
    IF fault.kind = "write" THEN File(SubSeq(all, 1, fault.at - 1)) ELSE File(all)

WriteResult(fault) == IF fault.kind = "write" THEN "Err" ELSE "Ok"

-----------------------------------------------------------------------------
(* load_tasks *)

\* BufReader::lines yields Err for a line that is not valid UTF-8
ValidUtf8(line) == \A i \in 1..Len(line) : line[i] # BADBYTE

LoadLine_atLeastTwo(line) ==
    IF ~ValidUtf8(line) THEN <<>>
    ELSE LET parts == Split(line) IN
         IF Len(parts) >= 2 THEN <<Task(parts[1], FromStr(parts[2]))>> ELSE <<>>

LoadLine_keepOneField(line) ==
    IF ~ValidUtf8(line) THEN <<>>
    ELSE LET parts == Split(line) IN
         IF Len(parts) = 2 THEN <<Task(parts[1], FromStr(parts[2]))>>
         ELSE IF Len(parts) = 1 THEN <<Task(parts[1], None)>> ELSE <<>>

\* the body of the loop of load_tasks: the tasks one line contributes
LoadLine(line) ==
    IF ~ValidUtf8(line) THEN <<>>
    ELSE LET parts == Split(line) IN
         IF Len(parts) = 2 THEN <<Task(parts[1], FromStr(parts[2]))>> ELSE <<>>

RECURSIVE LoadLines(_)
LoadLines(lines) ==
    IF lines = <<>> THEN <<>>
    ELSE LoadLine(Head(lines)) \o LoadLines(Tail(lines))

load_tasks_propagate(ts, f, fault) ==
    IF OpenFails(f, fault) \/ f.kind = "absent"
    THEN [tasks |-> ts, result |-> "Err"]
    ELSE [tasks |-> ts \o LoadLines(f.lines), result |-> "Ok"]

\* load_tasks: a file that cannot be opened is skipped, Ok(()) in every case
load_tasks(ts, f, fault) ==
    IF OpenFails(f, fault) \/ f.kind = "absent"
    THEN [tasks |-> ts, result |-> "Ok"]
    ELSE [tasks |-> ts \o LoadLines(f.lines), result |-> "Ok"]

-----------------------------------------------------------------------------
(* save_tasks *)

SaveLine(task) ==
    IF IsSome(task.due_date)
    THEN task.description \o <<COMMA>> \o Display(Unwrap(task.due_date))
    ELSE task.description

SaveLines(ts) == [i \in 1..Len(ts) |-> SaveLine(ts[i])]

save_tasks_append(ts, f, fault) ==
    IF OpenFails(f, fault)
    THEN [file |-> f, result |-> "Err"]
    ELSE [file |-> File(f.lines \o Written(SaveLines(ts), fault).lines),
          result |-> WriteResult(fault)]

\* save_tasks: open with truncate, one writeln per task, ? on each
save_tasks(ts, f, fault) ==
    IF OpenFails(f, fault)
    THEN [file |-> f, result |-> "Err"]
    ELSE [file |-> Written(SaveLines(ts), fault), result |-> WriteResult(fault)]

-----------------------------------------------------------------------------
(* export_tasks_to_csv *)

HEADER == <<"D", "e", "s", "c", "r", "i", "p", "t", "i", "o", "n", ",",
            "D", "u", "e", " ", "D", "a", "t", "e">>

ExportLine(task) ==
    IF IsSome(task.due_date)
    THEN task.description \o <<COMMA>> \o Display(Unwrap(task.due_date))
    ELSE task.description \o <<COMMA>>

ExportLines(ts) == <<HEADER>> \o [i \in 1..Len(ts) |-> ExportLine(ts[i])]

export_tasks_to_csv_unchecked(ts, f, fault) ==
    IF OpenFails(f, fault)
    THEN [file |-> f, result |-> "Err", printed |-> FALSE]
    ELSE [file |-> Written(ExportLines(ts), fault), result |-> "Ok", printed |-> TRUE]

\* export_tasks_to_csv: open with truncate, the header, one writeln per task,
\* ? on each, then the notice
export_tasks_to_csv(ts, f, fault) ==
    IF OpenFails(f, fault)
    THEN [file |-> f, result |-> "Err", printed |-> FALSE]
    ELSE [file |-> Written(ExportLines(ts), fault),
          result |-> WriteResult(fault),
          printed |-> WriteResult(fault) = "Ok"]

-----------------------------------------------------------------------------
(* The inputs the model draws *)

\* all sequences over S of length at most n
RECURSIVE SeqsUpTo(_, _)
SeqsUpTo(S, n) ==
    IF n = 0 THEN {<<>>}
    ELSE LET shorter == SeqsUpTo(S, n - 1) IN
         shorter \cup {Append(q, x) : q \in shorter, x \in S}

\* lines a description prompt may be answered with
DescriptionInputs ==
    { <<"a">>, <<" ", "a">>, <<"a", ",", "b">>, <<"a", ",", "b", ",", "c">> }

\* "2024-01-01 00:00:01": a due date in the pattern the prompt asks for
WellFormedDue ==
    <<"2", "0", "2", "4", "-", "0", "1", "-", "0", "1", " ",
      "0", "0", ":", "0", "0", ":", "0", "1">>

\* lines a due-date prompt may be answered with
DueInputs == { <<>>, <<" ">>, <<"x">>, WellFormedDue }

\* lines tasks.csv may hold when the program starts
StoreLines ==
    { <<"a">>,
      <<"a", ",", "b">>,
      <<"a", ",", "b", ",", "c">>,
      <<"a", ",", BADBYTE>>,
      <<"a", COMMA>> \o Display(1),
      <<"b", ",", "2", "0", "2", "4", "-", "0", "1", "-", "0", "1", "T",
        "0", "0", ":", "0", "1", ":", "0", "1", "Z">> }

Stores == {Absent, Unopenable} \cup {File(l) : l \in SeqsUpTo(StoreLines, MaxLines)}

-----------------------------------------------------------------------------
(* main: one session *)

Init ==
    /\ tasks = <<>>
    /\ store \in Stores
    /\ export = Absent
    /\ pc = "start"
    /\ now = 0
    /\ desc = None
    /\ idx = 0
    /\ console = "none"
    /\ reminded = {}
    /\ err = "none"
    /\ lastInput = None
    /\ lastCheck = None
    /\ orig = <<>>
    /\ res = "none"
    /\ io = [op |-> "none", fault |-> NoFault]
    /\ calls = [load |-> 0, save |-> 0]

\* the statements after the match of main: the reminder loop starts
ToReminders ==
    /\ pc' = "remind"
    /\ idx' = 1
    /\ reminded' = {}

\* main, line 30: load_tasks(&mut tasks)?
Startup(fault) ==
    /\ pc = "start"
    /\ LET r == load_tasks(tasks, store, fault) IN
       /\ tasks' = r.tasks
       /\ res' = r.result
       /\ pc' = IF r.result = "Ok" THEN "menu" ELSE "failed"
       /\ err' = IF r.result = "Ok" THEN "none" ELSE "load"
    /\ io' = [op |-> "load", fault |-> fault]
    /\ calls' = [calls EXCEPT !.load = @ + 1]
    /\ UNCHANGED <<store, export, now, desc, idx, console, reminded,
                   lastInput, lastCheck, orig>>

\* flush()? and read_line()? of main and add_task: an error on the console
StdioError ==
    /\ pc \in {"menu", "add_due"}
    /\ pc' = "failed"
    /\ err' = "stdio"
    /\ UNCHANGED <<tasks, store, export, now, desc, idx, console, reminded,
                   lastInput, lastCheck, orig, res, io, calls>>

\* choice "1", add_task up to the retry loop: the description is read
AddDescription(line) ==
    /\ pc = "menu"
    /\ Len(tasks) < MaxTasks
    /\ desc' = Some(Trim(line))
    /\ lastInput' = None
    /\ console' = "none"
    /\ pc' = "add_due"
    /\ UNCHANGED <<tasks, store, export, now, idx, reminded, err, lastCheck,
                   orig, res, io, calls>>

add_task_lenient(ts, description, input) ==
    IF input = <<>>
    THEN [tasks |-> Append(ts, Task(description, None)), done |-> TRUE, printed |-> "none"]
    ELSE LET p == parse_from_str(input) IN
         IF p.ok
         THEN [tasks |-> Append(ts, Task(description, p.value)), done |-> TRUE,
               printed |-> "none"]
         ELSE [tasks |-> Append(ts, Task(description, None)), done |-> FALSE,
               printed |-> "invalid date"]

\* one iteration of the retry loop of add_task, on the trimmed line read
add_task_loop(ts, description, input) ==
    IF input = <<>>
    THEN [tasks |-> Append(ts, Task(description, None)), done |-> TRUE, printed |-> "none"]
    ELSE LET p == parse_from_str(input) IN
         IF p.ok
         THEN [tasks |-> Append(ts, Task(description, p.value)), done |-> TRUE,
               printed |-> "none"]
         ELSE [tasks |-> ts, done |-> FALSE, printed |-> "invalid date"]

\* add_task, lines 75-96: a due-date line is read
AddDueDate(line) ==
    /\ pc = "add_due"
    /\ lastInput' = Some(Trim(line))
    /\ LET r == add_task_loop(tasks, Unwrap(desc), Trim(line)) IN
       /\ tasks' = r.tasks
       /\ console' = r.printed
       /\ IF r.done
          THEN desc' = None /\ ToReminders
          ELSE UNCHANGED <<desc, pc, idx, reminded>>
    /\ UNCHANGED <<store, export, now, err, lastCheck, orig, res, io, calls>>

\* choice "2": view_tasks prints and changes nothing
ViewTasks ==
    /\ pc = "menu"
    /\ console' = "tasks"
    /\ ToReminders
    /\ UNCHANGED <<tasks, store, export, now, desc, err, lastInput, lastCheck,
                   orig, res, io, calls>>

\* choice "3": export_tasks_to_csv(&tasks)?
ExportChoice(fault) ==
    /\ pc = "menu"
    /\ LET r == export_tasks_to_csv(tasks, export, fault) IN
       /\ export' = r.file
       /\ res' = r.result
       /\ console' = IF r.printed THEN "exported" ELSE "none"
       /\ IF r.result = "Ok"
          THEN ToReminders /\ UNCHANGED err
          ELSE pc' = "failed" /\ err' = "export" /\ UNCHANGED <<idx, reminded>>
    /\ io' = [op |-> "export", fault |-> fault]
    /\ UNCHANGED <<tasks, store, now, desc, lastInput, lastCheck, orig, calls>>

\* choice "4": save_tasks(&tasks)?; break
ExitChoice(fault) ==
    /\ pc = "menu"
    /\ LET r == save_tasks(tasks, store, fault) IN
       /\ store' = r.file
       /\ res' = r.result
       /\ pc' = IF r.result = "Ok" THEN "done" ELSE "failed"
       /\ err' = IF r.result = "Ok" THEN "none" ELSE "save"
    /\ io' = [op |-> "save", fault |-> fault]
    /\ calls' = [calls EXCEPT !.save = @ + 1]
    /\ console' = "none"
    /\ UNCHANGED <<tasks, export, now, desc, idx, reminded, lastInput,
                   lastCheck, orig>>

\* any other choice
InvalidChoice ==
    /\ pc = "menu"
    /\ console' = "invalid choice"
    /\ ToReminders
    /\ UNCHANGED <<tasks, store, export, now, desc, err, lastInput, lastCheck,
                   orig, res, io, calls>>

\* main, lines 55-59: one iteration of the reminder loop
RemindStep ==
    /\ pc = "remind"
    /\ idx <= Len(tasks)
    /\ LET due == is_due(tasks[idx], now) IN
       /\ lastCheck' = Some([due_date |-> tasks[idx].due_date, now |-> now,
                              result |-> due])
       /\ reminded' = IF due THEN reminded \cup {idx} ELSE reminded
    /\ idx' = idx + 1
    /\ UNCHANGED <<tasks, store, export, pc, now, desc, console, err,
                   lastInput, orig, res, io, calls>>

\* main, line 62: the loop is over, sleep one second, back to the menu
Sleep ==
    /\ pc = "remind"
    /\ idx > Len(tasks)
    /\ now' = IF now < MaxNow THEN now + 1 ELSE now
    /\ pc' = "menu"
    /\ idx' = 0
    /\ reminded' = {}
    /\ lastCheck' = None
    /\ UNCHANGED <<tasks, store, export, desc, console, err, lastInput,
                   orig, res, io, calls>>

\* time passes while the process waits or runs
Tick ==
    /\ pc \in {"menu", "add_due", "remind"}
    /\ now < MaxNow
    /\ now' = now + 1
    /\ UNCHANGED <<tasks, store, export, pc, desc, idx, console, reminded, err,
                   lastInput, lastCheck, orig, res, io, calls>>

Next ==
    \/ \E fault \in Faults(0) : Startup(fault)
    \/ StdioError
    \/ \E line \in DescriptionInputs : AddDescription(line)
    \/ \E line \in DueInputs : AddDueDate(line)
    \/ ViewTasks
    \/ \E fault \in Faults(Len(tasks) + 1) : ExportChoice(fault)
    \/ \E fault \in Faults(Len(tasks)) : ExitChoice(fault)
    \/ InvalidChoice
    \/ RemindStep
    \/ Sleep
    \/ Tick

Spec == Init /\ [][Next]_vars

-----------------------------------------------------------------------------
(* The file routines applied to arbitrary task lists and files *)

Descriptions == { <<"a">>, <<"a", ",", "b">>, <<"a", ",", "b", ",", "c">> }

TaskValues ==
    {Task(d, None) : d \in Descriptions}
        \cup {Task(<<"a">>, Some(1)), Task(<<"a", ",", "b">>, Some(61))}

CodecInit ==
    /\ tasks \in SeqsUpTo(TaskValues, MaxTasks)
    /\ store \in Stores
    /\ export = Absent
    /\ pc = "codec"
    /\ now = 0
    /\ desc = None
    /\ idx = 0
    /\ console = "none"
    /\ reminded = {}
    /\ err = "none"
    /\ lastInput = None
    /\ lastCheck = None
    /\ orig = <<>>
    /\ res = "none"
    /\ io = [op |-> "none", fault |-> NoFault]
    /\ calls = [load |-> 0, save |-> 0]

\* load_tasks(&mut tasks) on a list that need not be empty
CodecLoad(fault) ==
    /\ pc = "codec"
    /\ LET r == load_tasks(tasks, store, fault) IN
       /\ tasks' = r.tasks
       /\ res' = r.result
    /\ orig' = tasks
    /\ io' = [op |-> "load", fault |-> fault]
    /\ calls' = [calls EXCEPT !.load = @ + 1]
    /\ pc' = "loaded"
    /\ UNCHANGED <<store, export, now, desc, idx, console, reminded, err,
                   lastInput, lastCheck>>

\* save_tasks(&tasks)
CodecSave(fault) ==
    /\ pc = "codec"
    /\ LET r == save_tasks(tasks, store, fault) IN
       /\ store' = r.file
       /\ res' = r.result
       /\ pc' = IF r.result = "Ok" THEN "saved" ELSE "save failed"
    /\ orig' = tasks
    /\ io' = [op |-> "save", fault |-> fault]
    /\ calls' = [calls EXCEPT !.save = @ + 1]
    /\ UNCHANGED <<tasks, export, now, desc, idx, console, reminded, err,
                   lastInput, lastCheck>>

\* the next session: load_tasks into the empty list of main, line 27
CodecReload(fault) ==
    /\ pc = "saved"
    /\ LET r == load_tasks(<<>>, store, fault) IN
       /\ tasks' = r.tasks
       /\ res' = r.result
    /\ io' = [op |-> "load", fault |-> fault]
    /\ calls' = [calls EXCEPT !.load = @ + 1]
    /\ pc' = "reloaded"
    /\ UNCHANGED <<store, export, now, desc, idx, console, reminded, err,
                   lastInput, lastCheck, orig>>

\* export_tasks_to_csv(&tasks)
CodecExport(fault) ==
    /\ pc = "codec"
    /\ LET r == export_tasks_to_csv(tasks, export, fault) IN
       /\ export' = r.file
       /\ res' = r.result
       /\ console' = IF r.printed THEN "exported" ELSE "none"
    /\ orig' = tasks
    /\ io' = [op |-> "export", fault |-> fault]
    /\ pc' = "exported"
    /\ UNCHANGED <<tasks, store, now, desc, idx, reminded, err, lastInput,
                   lastCheck, calls>>

CodecNext ==
    \/ \E fault \in Faults(0) : CodecLoad(fault)
    \/ \E fault \in Faults(Len(tasks)) : CodecSave(fault)
    \/ \E fault \in Faults(0) : CodecReload(fault)
    \/ \E fault \in Faults(Len(tasks) + 1) : CodecExport(fault)

CodecSpec == CodecInit /\ [][CodecNext]_vars

-----------------------------------------------------------------------------
(* Helpers of the properties *)

CommaCount(s) == Cardinality({i \in 1..Len(s) : s[i] = COMMA})

IsPrefix(a, b) == Len(a) <= Len(b) /\ SubSeq(b, 1, Len(a)) = a

Increasing(f, n) == \A j, k \in 1..n : j < k => f[j] < f[k]

\* a is b with some entries left out
IsSubseq(a, b) ==
    \E f \in [1..Len(a) -> 1..Len(b)] :
        Increasing(f, Len(a)) /\ \A j \in 1..Len(a) : a[j] = b[f[j]]

DatedOnly(ts) == SelectSeq(ts, LAMBDA t : IsSome(t.due_date))

AllDated(ts) == \A i \in 1..Len(ts) : IsSome(ts[i].due_date)

\* the store was saved from orig without a fault and read back without one
RoundTripDone == pc = "reloaded" /\ io.fault = NoFault

\* lines holds one line per task of ts, in order: the description, and for a
\* dated task a comma and a timestamp of its due instant
OneLinePerTask(lines, ts) ==
    /\ Len(lines) = Len(ts)
    /\ \A i \in 1..Len(ts) :
        LET d == ts[i].description
            l == lines[i]
        IN  /\ IsPrefix(d, l)
            /\ IF IsSome(ts[i].due_date)
               THEN /\ Len(l) > Len(d)
                    /\ l[Len(d) + 1] = COMMA
                    /\ FromStr(Drop(l, Len(d) + 1)) = ts[i].due_date
               ELSE l = d

-----------------------------------------------------------------------------
(* Properties *)

\* C1: a list of dated tasks, saved and then loaded into an empty list, comes
\* back with the same descriptions and due instants in the same order,
\* whatever the descriptions contain
C1_DatedRoundTrip ==
    (RoundTripDone /\ AllDated(orig)) => tasks = orig

C3_ExportShape ==
    console = "exported" =>
        /\ export.kind = "file"
        /\ Len(export.lines) = Len(tasks) + 1
        /\ export.lines[1] = HEADER
        /\ \A i \in 1..Len(tasks) :
            LET parts == Split(export.lines[i + 1]) IN
            /\ Len(parts) = 2
            /\ (parts[2] = <<>>) <=> (tasks[i].due_date = None)

\* C4: is_due answers true exactly when the task has a due date and the
\* instant read is at or after it
C4_IsDue ==
    IsSome(lastCheck) =>
        LET c == Unwrap(lastCheck) IN
        /\ c.due_date = None => c.result = FALSE
        /\ IsSome(c.due_date) => (c.result <=> c.now >= Unwrap(c.due_date))

\* C4: is_due was called at the very instant the task was due, and said true
C4_Witness ==
    /\ IsSome(lastCheck)
    /\ Unwrap(lastCheck).due_date = Some(Unwrap(lastCheck).now)
    /\ Unwrap(lastCheck).result = TRUE

\* C5: once the due-date prompt is answered with a date in the pattern
\* YYYY-MM-DD HH:MM:SS, the retry loop is over and the last task of the list
\* carries that instant
C5_WellFormedDueAccepted ==
    lastInput = Some(WellFormedDue) =>
        /\ pc # "add_due"
        /\ tasks # <<>>
        /\ tasks[Len(tasks)].due_date = FromStr(WellFormedDue \o <<"Z">>)

\* C6: load_tasks keeps the entries of the list and appends, in file order,
\* one task per line with exactly one comma (the text before it, and the
\* parsed timestamp after it or None), and nothing for any other line
C6_LoadPerLine ==
    (pc = "loaded" /\ store.kind = "file" /\ io.fault = NoFault) =>
        LET lines == store.lines
            kept == {i \in 1..Len(lines) :
                        ValidUtf8(lines[i]) /\ CommaCount(lines[i]) = 1}
            rank(i) == Cardinality({j \in kept : j <= i})
        IN  /\ Len(tasks) = Len(orig) + Cardinality(kept)
            /\ IsPrefix(orig, tasks)
            /\ \A i \in kept :
                LET c == FirstComma(lines[i]) IN
                tasks[Len(orig) + rank(i)]
                    = Task(SubSeq(lines[i], 1, c - 1), FromStr(Drop(lines[i], c)))

\* C6: a list that was not empty was loaded into, from a file whose first
\* line has three fields and whose second has two
C6_Witness ==
    /\ pc = "loaded"
    /\ io.fault = NoFault
    /\ orig # <<>>
    /\ store.kind = "file"
    /\ Len(store.lines) = 2
    /\ CommaCount(store.lines[1]) = 2
    /\ CommaCount(store.lines[2]) = 1
    /\ Len(tasks) = Len(orig) + 1

C8_StoreWrittenOnlyAtExit ==
    [][ /\ pc # "done"
        /\ calls'.load = 1
        /\ pc # "start" => calls.load = 1
        /\ store' # store => (pc = "menu" /\ pc' \in {"done", "failed"})
        /\ calls'.save # calls.save => (pc = "menu" /\ pc' \in {"done", "failed"})
        /\ pc' = "done" =>
              /\ pc = "menu"
              /\ tasks' = tasks
              /\ store'.kind = "file"
              /\ OneLinePerTask(store'.lines, tasks)
      ]_vars

\* C8: the session ended on the exit choice with one task, typed in this
\* session, and the store holds its line and nothing else
C8_Witness ==
    /\ pc = "done"
    /\ tasks = <<Task(<<"a", ",", "b", ",", "c">>, None)>>
    /\ store = File(<<(<<"a", ",", "b", ",", "c">>)>>)

\* the last file routine was an export or a save, and it failed
WriterFailed ==
    /\ io.op \in {"export", "save"}
    /\ \/ io.fault.kind # "none"
       \/ io.op = "save" /\ store.kind = "unopenable"

\* C9: a failed export or save ends the process with that error and nothing
\* runs after it; after a failed export the store was never saved; the
\* notice of the export means that every line of it was written
C9_IoFailureEndsProcess ==
    /\ [](/\ WriterFailed => (pc = "failed" /\ err = io.op /\ res = "Err")
          /\ err = "export" => (calls.save = 0 /\ console # "exported")
          /\ console = "exported" =>
                (export.kind = "file" /\ Len(export.lines) = Len(tasks) + 1))
    /\ [][pc # "failed"]_vars

\* C9: an export failed on a write after the header, with tasks in the list
C9_Witness ==
    /\ pc = "failed"
    /\ err = "export"
    /\ io.fault.kind = "write"
    /\ io.fault.at >= 2
    /\ tasks # <<>>
    /\ calls.save = 0

\* C10: after startup every step keeps the list as a prefix of the new list;
\* only a completed add-task changes it, by exactly one task at the end, and
\* an unparseable due-date entry changes nothing
C10_AppendOnly ==
    [][ pc # "start" =>
          /\ IsPrefix(tasks, tasks')
          /\ Len(tasks') <= Len(tasks) + 1
          /\ tasks' # tasks => (pc = "add_due" /\ pc' = "remind")
          /\ (pc = "add_due" /\ pc' = "remind") =>
                (Len(tasks') = Len(tasks) + 1
                    /\ tasks'[Len(tasks')].description = Unwrap(desc))
          /\ (pc = "add_due" /\ console' = "invalid date") => tasks' = tasks
      ]_vars

\* C10: an add-task has just completed, on a blank due-date line, on a list
\* that already had a task
C10_Witness ==
    /\ pc = "remind"
    /\ idx = 1
    /\ lastInput = Some(<<>>)
    /\ Len(tasks) = 2

====
